---- MODULE Spec2Model ----
(***************************************************************************)
(* The real-time transaction alert monitor of the fraud dashboard:         *)
(* RealtimeMonitorModal in src/frontend/components/Login.tsx, lines        *)
(* 463-495.  One component instance owns one WebSocket; its onmessage      *)
(* handler parses each frame and updates two bounded, newest-first arrays  *)
(* (transactions, alerts) and four counters (stats).                       *)
(*                                                                         *)
(* JSON values are written as strings ("true", "0", "undefined" for a      *)
(* property the frame does not carry); transaction_id is a number.         *)
(***************************************************************************)
EXTENDS Integers, Sequences, FiniteSets

VARIABLES
    transactions,   \* useState<RealtimeTransaction[]>([])          (line 464)
    alerts,         \* useState<RealtimeTransaction[]>([])          (line 465)
    isConnected,    \* useState(false)                              (line 466)
    stats,          \* useState({ total, alerts, truePositives, falsePositives })
    wsState,        \* readyState of the WebSocket held by wsRef    (line 474)
    mounted,        \* the component instance is mounted
    cues,           \* number of audioRef.current.play() calls      (line 489)
    cueOutcome,     \* what became of the play() of the frame last handled
    notices,        \* messages shown by alert(...)                 (line 479)
    dialog,         \* an alert(...) dialog is open and blocks the page
    uncaught,       \* exceptions thrown out of onmessage
    discarded,      \* frames that reached the socket after close()
    feed,           \* what the upstream service sends in this session
    history,        \* frames handed to onmessage in this session, in arrival order
    queue,          \* state updates React has queued and not yet rendered
    oldWs,          \* readyState of a socket an earlier run of the effect created
    \* Login (Login.tsx lines 5-44)
    email,          \* useState('')                                 (line 7)
    password,       \* useState('')                                 (line 8)
    isLoading,      \* useState(false)                              (line 10)
    error,          \* useState('')                                 (line 11)
    inFlight,       \* handleSubmit calls awaiting the server
    attempts,       \* handleSubmit calls started
    localStorage,   \* the token and user items
    route,          \* where router.push has taken the browser
    lastOutcome,    \* how the attempt that completed last ended
    \* Copilot (Copilot.tsx lines 85-110)
    messages,       \* useState([greeting])                         (line 87)
    input,          \* useState('')                                 (line 90)
    isTyping,       \* useState(false)                              (line 91)
    pending,        \* queries whose processQuery has not returned
    \* Investigations (Copilot.tsx lines 257-322)
    cases,          \* useState({})                                 (line 259)
    loading,        \* useState(true)                               (line 260)
    serverCases,    \* the cases held by the server
    caseRequests    \* requests of the workbench that are under way

monitorVars == <<transactions, alerts, isConnected, stats, wsState, mounted, cues,
                 cueOutcome, notices, dialog, uncaught, discarded, feed, history,
                 queue, oldWs>>

loginVars == <<email, password, isLoading, error, inFlight, attempts, localStorage,
               route, lastOutcome>>

chatVars == <<messages, input, isTyping, pending>>

caseVars == <<cases, loading, serverCases, caseRequests>>

vars == <<monitorVars, loginVars, chatVars, caseVars>>

\* what the handlers of the monitor's socket leave alone
offMonitor == <<queue, oldWs, loginVars, chatVars, caseVars>>

----------------------------------------------------------------------------
(* Bounds of the model.                                                    *)

\* frames delivered to one session
MaxFrames == 52

\* frames that reach a session's socket after close()
MaxDiscarded == 1

\* frames handled between two renders
MaxPending == 2

\* calls of handleSubmit
MaxAttempts == 3

\* queries sent to the assistant
MaxQueries == 3

\* requests of the workbench under way at once
MaxRequests == 1

----------------------------------------------------------------------------
(* Program constants.                                                      *)

\* .slice(0, 50) of the transaction stream
TxCap == 50

\* .slice(0, 20) of the alert feed
AlertCap == 20

----------------------------------------------------------------------------
(* Pure helpers of the handler.                                            *)

Min(a, b) == IF a <= b THEN a ELSE b

\* slice(-n) for slice(0, n): keeps the tail
Slice0_KeepsTail(s, n) == SubSeq(s, Len(s) - Min(n, Len(s)) + 1, Len(s))

\* Array.prototype.slice(0, n)
Slice0(s, n) == SubSeq(s, 1, Min(n, Len(s)))

\* [data, ...prev]
Spread(data, prev) == <<data>> \o prev

\* is_alert !== false for is_alert
Truthy_NotFalse(v) == v # "false"

\* JavaScript truthiness of a JSON value (data.is_alert ? 1 : 0, if (data.is_alert))
Truthy(v) == v \notin {"false", "undefined", "null", "0", "\"\""}

\* fraud_actual !== 0 for fraud_actual === 1, and !== 1 for === 0
StrictEq_NotTheOther(v, lit) == v \notin ({"0", "1"} \ {lit})

\* data.fraud_actual === 1, data.fraud_actual === 0
StrictEq(v, lit) == v = lit

\* useState initial values
InitialStats == [total |-> 0, alerts |-> 0, truePositives |-> 0, falsePositives |-> 0]

\* slice(0, 51) for slice(0, 50)
PushTransaction_OffByOne(data, prev) == Slice0(Spread(data, prev), TxCap + 1)

\* the updater passed to setTransactions
PushTransaction(data, prev) == Slice0(Spread(data, prev), TxCap)

\* the updater passed to setAlerts
PushAlert(data, prev) == Slice0(Spread(data, prev), AlertCap)

\* total counts only the frames that are not alerts
RecordStats_TotalSkipsAlerts(data, prev) ==
    [total          |-> prev.total + (IF Truthy(data.is_alert) THEN 0 ELSE 1),
     alerts         |-> prev.alerts + (IF Truthy(data.is_alert) THEN 1 ELSE 0),
     truePositives  |-> prev.truePositives +
                        (IF Truthy(data.is_alert) /\ StrictEq(data.fraud_actual, "1")
                         THEN 1 ELSE 0),
     falsePositives |-> prev.falsePositives +
                        (IF Truthy(data.is_alert) /\ StrictEq(data.fraud_actual, "0")
                         THEN 1 ELSE 0)]

\* the alert is recomputed from sender_risk_score > 0.5
RecordStats_AlertFromRisk(data, prev) ==
    [total          |-> prev.total + 1,
     alerts         |-> prev.alerts + (IF data.sender_risk_score = "0.9" THEN 1 ELSE 0),
     truePositives  |-> prev.truePositives +
                        (IF Truthy(data.is_alert) /\ StrictEq(data.fraud_actual, "1")
                         THEN 1 ELSE 0),
     falsePositives |-> prev.falsePositives +
                        (IF Truthy(data.is_alert) /\ StrictEq(data.fraud_actual, "0")
                         THEN 1 ELSE 0)]

\* falsePositives without the is_alert guard
RecordStats_UnguardedFalsePositive(data, prev) ==
    [total          |-> prev.total + 1,
     alerts         |-> prev.alerts + (IF Truthy(data.is_alert) THEN 1 ELSE 0),
     truePositives  |-> prev.truePositives +
                        (IF Truthy(data.is_alert) /\ StrictEq(data.fraud_actual, "1")
                         THEN 1 ELSE 0),
     falsePositives |-> prev.falsePositives +
                        (IF StrictEq(data.fraud_actual, "0") THEN 1 ELSE 0)]

\* the two labels swapped
RecordStats_SwappedLabels(data, prev) ==
    [total          |-> prev.total + 1,
     alerts         |-> prev.alerts + (IF Truthy(data.is_alert) THEN 1 ELSE 0),
     truePositives  |-> prev.truePositives +
                        (IF Truthy(data.is_alert) /\ StrictEq(data.fraud_actual, "0")
                         THEN 1 ELSE 0),
     falsePositives |-> prev.falsePositives +
                        (IF Truthy(data.is_alert) /\ StrictEq(data.fraud_actual, "1")
                         THEN 1 ELSE 0)]

\* a fraud the detector missed is counted as an alert
RecordStats_CountsMissedFraud(data, prev) ==
    [total          |-> prev.total + 1,
     alerts         |-> prev.alerts + (IF Truthy(data.is_alert) \/
                                          StrictEq(data.fraud_actual, "1")
                                       THEN 1 ELSE 0),
     truePositives  |-> prev.truePositives +
                        (IF Truthy(data.is_alert) /\ StrictEq(data.fraud_actual, "1")
                         THEN 1 ELSE 0),
     falsePositives |-> prev.falsePositives +
                        (IF Truthy(data.is_alert) /\ StrictEq(data.fraud_actual, "0")
                         THEN 1 ELSE 0)]

\* the updater passed to setStats
RecordStats(data, prev) ==
    [total          |-> prev.total + 1,
     alerts         |-> prev.alerts + (IF Truthy(data.is_alert) THEN 1 ELSE 0),
     truePositives  |-> prev.truePositives +
                        (IF Truthy(data.is_alert) /\ StrictEq(data.fraud_actual, "1")
                         THEN 1 ELSE 0),
     falsePositives |-> prev.falsePositives +
                        (IF Truthy(data.is_alert) /\ StrictEq(data.fraud_actual, "0")
                         THEN 1 ELSE 0)]

----------------------------------------------------------------------------
(* The inbound feed: frames of ws://localhost:8000/ws/realtime-monitor.    *)
(* body tells what event.data holds: the text of a JSON object, the text   *)
(* null, or text that is not JSON.                                         *)

\* the upstream risk score follows the ground-truth label, not the alert flag
RiskOf(fraud) == IF fraud = "1" THEN "0.9" ELSE "0.1"

\* {"type":"transaction", ...}: is_alert and fraud_actual as sent, absent, or
\* (fraud_actual) outside {0, 1}
TransactionKinds ==
    { [body |-> "object", type |-> "transaction", transaction_id |-> 0, is_alert |-> a,
       fraud_actual |-> f, sender_risk_score |-> RiskOf(f), message |-> "undefined"] :
      a \in {"true", "false", "undefined"}, f \in {"0", "1", "2", "undefined"} }

\* {"type":"error","message":"x"}
ErrorKind ==
    [body |-> "object", type |-> "error", transaction_id |-> 0, is_alert |-> "undefined",
     fraud_actual |-> "undefined", sender_risk_score |-> "undefined", message |-> "x"]

\* a well-formed frame of another type
UnknownKind ==
    [body |-> "object", type |-> "heartbeat", transaction_id |-> 0, is_alert |-> "true",
     fraud_actual |-> "1", sender_risk_score |-> "0.9", message |-> "undefined"]

\* a well-formed frame without a type: {"is_alert":true,"fraud_actual":1}
NoTypeKind ==
    [body |-> "object", type |-> "undefined", transaction_id |-> 0, is_alert |-> "true",
     fraud_actual |-> "1", sender_risk_score |-> "0.9", message |-> "undefined"]

\* the JSON value null
NullKind ==
    [body |-> "null", type |-> "undefined", transaction_id |-> 0, is_alert |-> "undefined",
     fraud_actual |-> "undefined", sender_risk_score |-> "undefined",
     message |-> "undefined"]

\* text that is not JSON
GarbageKind ==
    [body |-> "garbage", type |-> "undefined", transaction_id |-> 0,
     is_alert |-> "undefined", fraud_actual |-> "undefined",
     sender_risk_score |-> "undefined", message |-> "undefined"]

Kinds ==
    TransactionKinds \cup {ErrorKind, UnknownKind, NoTypeKind, NullKind, GarbageKind}

\* A session's feed alternates two kinds of frame (the same kind twice: a
\* uniform feed); with redeliver, the transport hands every frame over twice.
Feeds == [cycle : Kinds \X Kinds, redeliver : BOOLEAN]

\* ordinal of the upstream event behind the (n+1)-th delivered frame
Slot(f, n) == IF f.redeliver THEN (n \div 2) + 1 ELSE n + 1

\* the (n+1)-th frame of feed f; the upstream numbers its transactions
NextFrame(f, n) ==
    LET slot == Slot(f, n)
        kind == f.cycle[((slot - 1) % 2) + 1]
    IN  IF kind.type = "transaction"
        THEN [kind EXCEPT !.transaction_id = slot]
        ELSE kind

----------------------------------------------------------------------------
(* The platform under the handlers.                                        *)

\* JSON.parse(event.data) throws a SyntaxError
ParseThrows(raw) == raw.body = "garbage"

\* data.type throws a TypeError: data is null
TypeThrows(raw) == raw.body = "null"

\* close() puts a socket that is already closed back to closing
CloseSocket_AlwaysClosing(s) == "CLOSING"

\* WebSocket.close(): readyState after the call
CloseSocket(s) == IF s \in {"CLOSING", "CLOSED"} THEN s ELSE "CLOSING"

\* what the monitor's header shows: isConnected ? green : red
ShowsConnected == mounted /\ isConnected

----------------------------------------------------------------------------
(* The other pages as they are when first shown.                           *)

\* Login: empty form
LoginInit ==
    /\ email = ""
    /\ password = ""
    /\ isLoading = FALSE
    /\ error = ""
    /\ inFlight = {}
    /\ attempts = 0
    /\ localStorage = [token |-> "none", user |-> "none"]
    /\ route = "/login"
    /\ lastOutcome = "none"

\* the greeting the chat starts with
Greeting == [role |-> "ai", query |-> 0]

\* Copilot: the greeting, nothing typed
ChatInit ==
    /\ messages = <<Greeting>>
    /\ input = ""
    /\ isTyping = FALSE
    /\ pending = {}

\* the case_id of the cases of the workbench
CaseIds == {"CASE-1", "CASE-2"}

Statuses == {"open", "investigating", "confirmed_fraud", "false_positive"}

\* useState({})
NoCases == [c \in {} |-> "open"]

\* GET /cases on mount
FetchRequest == [kind |-> "fetch", id |-> "none", to |-> "none", phase |-> "sent",
                 ok |-> TRUE, snapshot |-> NoCases]

\* Investigations: no cases yet, the first fetchCases() under way
CasesInit ==
    /\ cases = NoCases
    /\ loading = TRUE
    /\ serverCases = [c \in CaseIds |-> "open"]
    /\ caseRequests = {FetchRequest}

\* everything besides the monitor's socket handlers, as first shown
OffMonitorInit ==
    /\ queue = <<>>
    /\ oldWs = "NONE"
    /\ LoginInit
    /\ ChatInit
    /\ CasesInit

----------------------------------------------------------------------------
(* The component.                                                          *)

\* mount: useState initial values, then the effect creates the socket
Init ==
    /\ transactions = <<>>
    /\ alerts = <<>>
    /\ isConnected = FALSE
    /\ stats = InitialStats
    /\ wsState = "CONNECTING"
    /\ mounted = TRUE
    /\ cues = 0
    /\ cueOutcome = "none"
    /\ notices = <<>>
    /\ dialog = FALSE
    /\ uncaught = 0
    /\ discarded = 0
    /\ feed \in Feeds
    /\ history = <<>>
    /\ OffMonitorInit

\* ws.onopen = () => setIsConnected(true)
OnOpen ==
    /\ ~dialog
    /\ wsState = "CONNECTING"
    /\ wsState' = "OPEN"
    /\ isConnected' = TRUE
    /\ UNCHANGED <<transactions, alerts, stats, mounted, cues, cueOutcome, notices,
                   dialog, uncaught, discarded, feed, history>>
    /\ UNCHANGED offMonitor

\* JSON.parse or data.type throws: the handler ends there, the exception is
\* reported by the browser
Throw ==
    /\ uncaught' = uncaught + 1
    /\ cueOutcome' = "none"
    /\ UNCHANGED <<transactions, alerts, stats, cues, notices, dialog>>

\* the error is only logged to the console
SurfaceError_Silent(data) ==
    /\ cueOutcome' = "none"
    /\ UNCHANGED <<transactions, alerts, stats, cues, notices, dialog, uncaught>>

\* alert("Backend Error: " + data.message); return
SurfaceError(data) ==
    /\ notices' = Append(notices, <<"Backend Error: ", data.message>>)
    /\ dialog' = TRUE
    /\ cueOutcome' = "none"
    /\ UNCHANGED <<transactions, alerts, stats, cues, uncaught>>

\* play() moved out of if (data.is_alert)
Accept_CueOnEveryTransaction(data) ==
    /\ transactions' = PushTransaction(data, transactions)
    /\ stats' = RecordStats(data, stats)
    /\ cues' = cues + 1
    /\ cueOutcome' \in {"played", "rejected"}
    /\ IF Truthy(data.is_alert)
       THEN alerts' = PushAlert(data, alerts)
       ELSE UNCHANGED alerts
    /\ UNCHANGED <<notices, dialog, uncaught>>

\* play() without .catch: the rejection is reported as unhandled
Accept_CueRejectionEscapes(data) ==
    /\ transactions' = PushTransaction(data, transactions)
    /\ stats' = RecordStats(data, stats)
    /\ IF Truthy(data.is_alert)
       THEN /\ alerts' = PushAlert(data, alerts)
            /\ cues' = cues + 1
            /\ cueOutcome' \in {"played", "rejected"}
            /\ uncaught' = IF cueOutcome' = "rejected" THEN uncaught + 1 ELSE uncaught
       ELSE /\ cueOutcome' = "none"
            /\ UNCHANGED <<alerts, cues, uncaught>>
    /\ UNCHANGED <<notices, dialog>>

\* the body of if (data.type === 'transaction'); play() resolves or rejects,
\* and .catch(() => {}) swallows the rejection
Accept(data) ==
    /\ transactions' = PushTransaction(data, transactions)
    /\ stats' = RecordStats(data, stats)
    /\ IF Truthy(data.is_alert)
       THEN /\ alerts' = PushAlert(data, alerts)
            /\ cues' = cues + 1
            /\ cueOutcome' \in {"played", "rejected"}
       ELSE /\ cueOutcome' = "none"
            /\ UNCHANGED <<alerts, cues>>
    /\ UNCHANGED <<notices, dialog, uncaught>>

\* neither branch taken
Ignore ==
    /\ cueOutcome' = "none"
    /\ UNCHANGED <<transactions, alerts, stats, cues, notices, dialog, uncaught>>

\* a frame with the transaction_id of the newest window entry is skipped
HandleMessage_Deduplicates(raw) ==
    IF ParseThrows(raw) \/ TypeThrows(raw) THEN Throw
    ELSE IF raw.type = "error" THEN SurfaceError(raw)
    ELSE IF /\ raw.type = "transaction"
            /\ ~ /\ transactions # <<>>
                 /\ transactions[1].transaction_id = raw.transaction_id
         THEN Accept(raw)
    ELSE Ignore

\* if (data.type !== 'error') for if (data.type === 'transaction')
HandleMessage_UnknownIsTransaction(raw) ==
    IF ParseThrows(raw) \/ TypeThrows(raw) THEN Throw
    ELSE IF raw.type = "error" THEN SurfaceError(raw)
    ELSE Accept(raw)

\* ws.onmessage, for the frame raw
HandleMessage(raw) ==
    IF ParseThrows(raw) \/ TypeThrows(raw) THEN Throw
    ELSE IF raw.type = "error" THEN SurfaceError(raw)
    ELSE IF raw.type = "transaction" THEN Accept(raw)
    ELSE Ignore

\* message events are dispatched on a socket that is closing too
OnMessage_WhileClosing ==
    /\ ~dialog
    /\ wsState \in {"OPEN", "CLOSING"}
    /\ Len(history) < MaxFrames
    /\ LET raw == NextFrame(feed, Len(history))
       IN  /\ HandleMessage(raw)
           /\ history' = Append(history, raw)
    /\ UNCHANGED <<isConnected, wsState, mounted, discarded, feed>>
    /\ UNCHANGED offMonitor

\* an error frame marks the monitor disconnected
OnMessage_ErrorDisconnects ==
    /\ ~dialog
    /\ wsState = "OPEN"
    /\ Len(history) < MaxFrames
    /\ LET raw == NextFrame(feed, Len(history))
       IN  /\ HandleMessage(raw)
           /\ history' = Append(history, raw)
           /\ isConnected' = IF raw.type = "error" THEN FALSE ELSE isConnected
    /\ UNCHANGED <<wsState, mounted, discarded, feed>>
    /\ UNCHANGED offMonitor

\* the transport delivers the next frame to the open socket: a message event
\* is dispatched only while readyState is OPEN
OnMessage ==
    /\ ~dialog
    /\ wsState = "OPEN"
    /\ Len(history) < MaxFrames
    /\ LET raw == NextFrame(feed, Len(history))
       IN  /\ HandleMessage(raw)
           /\ history' = Append(history, raw)
    /\ UNCHANGED <<isConnected, wsState, mounted, discarded, feed>>
    /\ UNCHANGED offMonitor

\* a frame reaches a socket on which close() was called: no message event
Discard ==
    /\ ~dialog
    /\ wsState = "CLOSING"
    /\ discarded < MaxDiscarded
    /\ Len(history) + discarded < MaxFrames
    /\ discarded' = discarded + 1
    /\ UNCHANGED <<transactions, alerts, isConnected, stats, wsState, mounted, cues,
                   cueOutcome, notices, dialog, uncaught, feed, history>>
    /\ UNCHANGED offMonitor

\* the operator dismisses the alert(...) dialog
Dismiss ==
    /\ dialog
    /\ dialog' = FALSE
    /\ UNCHANGED <<transactions, alerts, isConnected, stats, wsState, mounted, cues,
                   cueOutcome, notices, uncaught, discarded, feed, history>>
    /\ UNCHANGED offMonitor

\* onclose also empties the windows
OnClose_ClearsWindows ==
    /\ ~dialog
    /\ wsState \in {"CONNECTING", "OPEN", "CLOSING"}
    /\ wsState' = "CLOSED"
    /\ isConnected' = IF mounted THEN FALSE ELSE isConnected
    /\ transactions' = <<>>
    /\ alerts' = <<>>
    /\ UNCHANGED <<stats, mounted, cues, cueOutcome, notices,
                   dialog, uncaught, discarded, feed, history>>
    /\ UNCHANGED offMonitor

\* onclose opens a new socket while the monitor is shown
OnClose_Reconnects ==
    /\ ~dialog
    /\ wsState \in {"CONNECTING", "OPEN", "CLOSING"}
    /\ wsState' = IF mounted /\ wsState = "OPEN" THEN "CONNECTING" ELSE "CLOSED"
    /\ isConnected' = IF mounted THEN FALSE ELSE isConnected
    /\ UNCHANGED <<transactions, alerts, stats, mounted, cues, cueOutcome, notices,
                   dialog, uncaught, discarded, feed, history>>
    /\ UNCHANGED offMonitor

\* onclose also clears the counters
OnClose_ResetsStats ==
    /\ ~dialog
    /\ wsState \in {"CONNECTING", "OPEN", "CLOSING"}
    /\ wsState' = "CLOSED"
    /\ isConnected' = IF mounted THEN FALSE ELSE isConnected
    /\ stats' = InitialStats
    /\ UNCHANGED <<transactions, alerts, mounted, cues, cueOutcome, notices,
                   dialog, uncaught, discarded, feed, history>>
    /\ UNCHANGED offMonitor

\* onclose also empties the alert feed
OnClose_ClearsAlerts ==
    /\ ~dialog
    /\ wsState \in {"CONNECTING", "OPEN", "CLOSING"}
    /\ wsState' = "CLOSED"
    /\ isConnected' = IF mounted THEN FALSE ELSE isConnected
    /\ alerts' = <<>>
    /\ UNCHANGED <<transactions, stats, mounted, cues, cueOutcome, notices,
                   dialog, uncaught, discarded, feed, history>>
    /\ UNCHANGED offMonitor

\* the transport closes or fails: ws.onclose = () => setIsConnected(false)
OnClose ==
    /\ ~dialog
    /\ wsState \in {"CONNECTING", "OPEN", "CLOSING"}
    /\ wsState' = "CLOSED"
    /\ isConnected' = IF mounted THEN FALSE ELSE isConnected
    /\ UNCHANGED <<transactions, alerts, stats, mounted, cues, cueOutcome, notices,
                   dialog, uncaught, discarded, feed, history>>
    /\ UNCHANGED offMonitor

\* the effect cleanup on unmount: ws.close()
Cleanup ==
    /\ ~dialog
    /\ mounted
    /\ mounted' = FALSE
    /\ wsState' = CloseSocket(wsState)
    /\ UNCHANGED <<transactions, alerts, isConnected, stats, cues, cueOutcome, notices,
                   dialog, uncaught, discarded, feed, history>>
    /\ UNCHANGED offMonitor

\* the counters live in the dashboard and outlast the monitor
Mount_KeepsCounters ==
    /\ ~dialog
    /\ ~mounted
    /\ transactions' = <<>>
    /\ alerts' = <<>>
    /\ isConnected' = FALSE
    /\ wsState' = "CONNECTING"
    /\ mounted' = TRUE
    /\ cues' = 0
    /\ cueOutcome' = "none"
    /\ notices' = <<>>
    /\ dialog' = FALSE
    /\ uncaught' = 0
    /\ discarded' = 0
    /\ history' = <<>>
    /\ UNCHANGED <<stats, feed>>
    /\ UNCHANGED offMonitor

\* the dashboard shows the monitor again: a new instance, a new socket to
\* the same upstream service
Mount ==
    /\ ~dialog
    /\ ~mounted
    /\ transactions' = <<>>
    /\ alerts' = <<>>
    /\ isConnected' = FALSE
    /\ stats' = InitialStats
    /\ wsState' = "CONNECTING"
    /\ mounted' = TRUE
    /\ cues' = 0
    /\ cueOutcome' = "none"
    /\ notices' = <<>>
    /\ dialog' = FALSE
    /\ uncaught' = 0
    /\ discarded' = 0
    /\ history' = <<>>
    /\ UNCHANGED feed
    /\ UNCHANGED offMonitor

Next == OnOpen \/ OnMessage \/ Discard \/ Dismiss \/ OnClose \/ Cleanup \/ Mount

Spec == Init /\ [][Next]_vars

----------------------------------------------------------------------------
(* What the session has received, for stating the properties.              *)

IsTransaction(f) == f.type = "transaction"

IsAlerted(f) == IsTransaction(f) /\ f.is_alert = "true"

\* the transaction frames received so far, oldest first
TxHistory == SelectSeq(history, IsTransaction)

\* the alerted transaction frames received so far, oldest first
AlertHistory == SelectSeq(history, IsAlerted)

Reverse(s) == [i \in 1..Len(s) |-> s[Len(s) + 1 - i]]

\* the last min(n, Len(s)) items of s
LastN(s, n) == SubSeq(s, Len(s) - Min(n, Len(s)) + 1, Len(s))

\* this step handled one frame
Handled == Len(history') = Len(history) + 1

\* the frame this step handled
Frame == history'[Len(history')]

\* this step started a new session
NewSession == ~mounted /\ mounted'

----------------------------------------------------------------------------
(* Windows.                                                                *)

\* C1: after N transaction frames the transaction window has length
\* min(N, 50) and its first element is the latest transaction received,
\* alerted or not.
C1_TxWindowLength ==
    LET n == Len(TxHistory)
    IN  /\ Len(transactions) = Min(n, 50)
        /\ n > 0 => transactions[1] = TxHistory[n]

\* 51 transactions received, alerted and not: the window holds 50, newest first
C1_Witness ==
    /\ Len(TxHistory) = 51
    /\ Len(transactions) = 50
    /\ transactions[1].transaction_id = 51
    /\ \E i, j \in 1..50 : /\ transactions[i].is_alert = "true"
                           /\ transactions[j].is_alert = "false"

\* C2: the alert feed holds only transactions whose is_alert flag was set,
\* has length min(A, 20) for A alerted frames received, and starts with the
\* latest alerted transaction.
C2_AlertFeed ==
    LET a == Len(AlertHistory)
    IN  /\ \A i \in 1..Len(alerts) : IsAlerted(alerts[i])
        /\ Len(alerts) = Min(a, 20)
        /\ a > 0 => alerts[1] = AlertHistory[a]

\* 21 alerted frames among frames without the flag: the feed holds 20
C2_Witness ==
    /\ Len(AlertHistory) = 21
    /\ Len(alerts) = 20
    /\ alerts[1] = AlertHistory[21]
    /\ \E i \in 1..Len(history) : IsTransaction(history[i]) /\ ~IsAlerted(history[i])

\* C3: a push into a full window drops exactly the oldest item and keeps the
\* order of the rest: the transaction window is the last min(N, 50)
\* transactions, the alert feed the last min(A, 20) alerted transactions, both
\* in reverse arrival order.
C3_WindowsAreSuffixes ==
    /\ transactions = Reverse(LastN(TxHistory, 50))
    /\ alerts = Reverse(LastN(AlertHistory, 20))

\* both windows have evicted, and hold frames of two kinds
C3_Witness ==
    /\ Len(TxHistory) > 50
    /\ Len(AlertHistory) > 20
    /\ transactions[50].transaction_id = Len(TxHistory) - 49
    /\ alerts[20].transaction_id < alerts[1].transaction_id
    /\ alerts[1].fraud_actual # alerts[2].fraud_actual

----------------------------------------------------------------------------
(* Counters.                                                               *)

\* C4: stats.total is the number of transaction frames handled, whatever
\* they contain and whatever error or unknown frames came in between.
C4_TotalCountsTransactions == stats.total = Len(TxHistory)

\* transactions interleaved with error frames
C4_Witness ==
    /\ stats.total = 26
    /\ Len(history) = 52
    /\ \E i \in 1..Len(history) : history[i].type = "error"
    /\ \E i \in 1..Len(history) : IsAlerted(history[i])

\* C5: stats.alerts is the number of transaction frames received with
\* is_alert true; risk scores and fraud_actual play no part.
C5_AlertsCountFlag == stats.alerts = Len(AlertHistory)

\* a flagged low-risk legitimate frame and an unflagged high-risk fraud
C5_Witness ==
    /\ stats.alerts >= 2
    /\ \E i, j \in 1..Len(history) :
          /\ IsAlerted(history[i])
          /\ history[i].sender_risk_score = "0.1"
          /\ history[i].fraud_actual = "0"
          /\ IsTransaction(history[j])
          /\ history[j].is_alert = "false"
          /\ history[j].sender_risk_score = "0.9"

C7_CounterBounds ==
    /\ \A k \in DOMAIN stats : stats[k] \in Nat
    /\ stats.alerts <= stats.total
    /\ stats.truePositives + stats.falsePositives <= stats.alerts

\* alerts without a usable label and frames without the flag: both strict
C7_Witness ==
    /\ stats.truePositives + stats.falsePositives < stats.alerts
    /\ stats.alerts < stats.total
    /\ \E i, j \in 1..Len(history) :
          /\ IsAlerted(history[i])
          /\ history[i].fraud_actual \in {"2", "undefined"}
          /\ IsTransaction(history[j])
          /\ history[j].is_alert = "undefined"

\* C8: one transaction frame adds 1 to truePositives exactly when is_alert is
\* true and fraud_actual is 1, adds 1 to falsePositives exactly when is_alert
\* is true and fraud_actual is 0, adds nothing otherwise, and never adds to
\* both.
C8_Classification ==
    [][ (Handled /\ IsTransaction(Frame)) =>
          /\ stats'.truePositives = stats.truePositives +
                (IF Frame.is_alert = "true" /\ Frame.fraud_actual = "1" THEN 1 ELSE 0)
          /\ stats'.falsePositives = stats.falsePositives +
                (IF Frame.is_alert = "true" /\ Frame.fraud_actual = "0" THEN 1 ELSE 0)
          /\ ~ /\ stats'.truePositives # stats.truePositives
               /\ stats'.falsePositives # stats.falsePositives ]_vars

\* a confirmed alert and an unflagged fraud have been handled
C8_Witness ==
    /\ stats.truePositives >= 1
    /\ stats.falsePositives = 0
    /\ \E i \in 1..Len(history) :
          /\ IsTransaction(history[i])
          /\ history[i].is_alert = "false"
          /\ history[i].fraud_actual = "1"

\* C9: within a session no step (frame, open, close, transport failure,
\* cleanup) lowers total, alerts, truePositives or falsePositives.
C9_CountersMonotone ==
    [][ ~NewSession => \A k \in DOMAIN stats : stats'[k] >= stats[k] ]_vars

\* the transport dropped under a monitor that had counted alerts
C9_Witness ==
    /\ mounted
    /\ wsState = "CLOSED"
    /\ stats.total >= 2
    /\ stats.truePositives >= 1
    /\ stats.falsePositives >= 1

\* C10: a transaction frame delivered a second time is counted again and
\* pushed again, exactly as a new event would be.
C10_NoDeduplication ==
    [][ (Handled /\ IsTransaction(Frame) /\ history # <<>>
            /\ history[Len(history)] = Frame) =>
          /\ stats'.total = stats.total + 1
          /\ stats'.alerts = stats.alerts + (IF Frame.is_alert = "true" THEN 1 ELSE 0)
          /\ stats'.truePositives = stats.truePositives +
                (IF Frame.is_alert = "true" /\ Frame.fraud_actual = "1" THEN 1 ELSE 0)
          /\ stats'.falsePositives = stats.falsePositives +
                (IF Frame.is_alert = "true" /\ Frame.fraud_actual = "0" THEN 1 ELSE 0)
          /\ transactions'[1] = Frame /\ transactions'[2] = Frame
          /\ Frame.is_alert = "true" => alerts'[1] = Frame /\ alerts'[2] = Frame ]_vars

\* an alerted transaction was delivered twice: two copies in each window
C10_Witness ==
    /\ Len(history) = 2
    /\ history[1] = history[2]
    /\ IsAlerted(history[1])
    /\ stats.total = 2
    /\ stats.alerts = 2
    /\ transactions = <<history[1], history[1]>>
    /\ alerts = <<history[1], history[1]>>

----------------------------------------------------------------------------
(* Close and the frames around it.                                         *)

\* this step and the state before it lie after the cleanup's close()
AfterClose == ~mounted /\ ~mounted'

\* C11: once the cleanup has called close(), no frame that arrives or was
\* queued runs the handler or changes the windows or the counters.
C11_NoHandlerAfterClose ==
    [][ AfterClose =>
          UNCHANGED <<transactions, alerts, stats, history, cues, notices, uncaught>>
      ]_vars

\* a frame reached the closing socket of a session that had counted alerts
C11_Witness ==
    /\ ~mounted
    /\ discarded >= 1
    /\ stats.alerts >= 1
    /\ Len(history) < MaxFrames

----------------------------------------------------------------------------
(* Frames that are not transactions.                                       *)

\* C13: a well-formed frame whose type is neither "transaction" nor "error",
\* or that has no type, changes nothing: windows, counters, indicator, cue,
\* notices; the socket stays open and nothing blocks the next frame.
C13_UnknownTypeIgnored ==
    [][ (Handled /\ Frame.body = "object" /\ Frame.type \notin {"transaction", "error"}) =>
          /\ UNCHANGED <<transactions, alerts, stats, isConnected, cues, notices,
                         uncaught>>
          /\ cueOutcome' = "none"
          /\ wsState' = "OPEN"
          /\ ~dialog'
      ]_vars

\* a frame of unknown type or without type, then an alerted transaction
C13_Witness ==
    \E i \in 1..(Len(history) - 1) :
       /\ history[i].body = "object"
       /\ history[i].type \in {"heartbeat", "undefined"}
       /\ IsAlerted(history[i + 1])
       /\ stats.alerts >= 1
       /\ alerts[1] = history[i + 1]

\* C14: an error frame received while connected shows the upstream message
\* to the operator, leaves the indicator Connected and the socket open, and
\* leaves the windows and the counters as they were.
C14_ErrorSurfaced ==
    [][ (Handled /\ Frame.type = "error") =>
          /\ notices' = Append(notices, <<"Backend Error: ", Frame.message>>)
          /\ ShowsConnected /\ ShowsConnected'
          /\ wsState' = "OPEN"
          /\ UNCHANGED <<transactions, alerts, stats>>
      ]_vars

\* an error frame after counted transactions: shown, still connected
C14_Witness ==
    /\ Len(history) >= 2
    /\ history[Len(history)].type = "error"
    /\ notices # <<>>
    /\ notices[Len(notices)] = <<"Backend Error: ", "x">>
    /\ ShowsConnected
    /\ wsState = "OPEN"
    /\ stats.total >= 1

\* C15: surfacing an upstream error does not block processing: after an
\* error frame the next frame is handled without any operator action.
C15_ErrorDoesNotBlock ==
    (/\ wsState = "OPEN"
     /\ Len(history) < MaxFrames
     /\ history # <<>>
     /\ history[Len(history)].type = "error")
    => ENABLED OnMessage

\* the frame is a JSON object and, when tagged a transaction, carries
\* is_alert as a boolean and fraud_actual as 0 or 1
MatchesSchema(f) ==
    /\ f.body = "object"
    /\ f.type = "transaction" =>
          /\ f.is_alert \in {"true", "false"}
          /\ f.fraud_actual \in {"0", "1"}

\* C16: a frame that is not JSON or does not match the tagged schema is
\* dropped: windows, counters and indicator stay as they were, the socket
\* stays open and nothing blocks the frames after it.
C16_MalformedFrameDropped ==
    [][ (Handled /\ ~MatchesSchema(Frame)) =>
          /\ UNCHANGED <<transactions, alerts, stats, isConnected>>
          /\ wsState' = "OPEN"
          /\ ~dialog'
      ]_vars

----------------------------------------------------------------------------
(* The connection and its indicator.                                       *)

\* C17: a failed handshake or a dropped transport only turns the indicator
\* to Disconnected: nothing is thrown, the monitor stays up, windows and
\* counters keep their values.
C17_TransportFailureOnlyDisconnects ==
    [][ (mounted /\ wsState # "CLOSED" /\ wsState' = "CLOSED") =>
          /\ ~isConnected'
          /\ mounted'
          /\ UNCHANGED <<transactions, alerts, stats, notices, dialog, uncaught>>
      ]_vars

\* the handshake failed: closed before any frame, monitor still shown
C17_Witness ==
    /\ mounted
    /\ wsState = "CLOSED"
    /\ ~isConnected
    /\ history = <<>>

\* the moves of readyState within one session
Lifecycle ==
    { <<"CONNECTING", "OPEN">>, <<"CONNECTING", "CLOSING">>, <<"CONNECTING", "CLOSED">>,
      <<"OPEN", "CLOSING">>, <<"OPEN", "CLOSED">>, <<"CLOSING", "CLOSED">> }

\* C18: within a session the indicator turns Connected only when the socket
\* opens, shows Connected only while the socket is open (so it is
\* Disconnected at the start, after close() and after a transport error),
\* and the socket never goes back: there is no reconnect.
C18_Lifecycle ==
    [][ /\ (~ShowsConnected /\ ShowsConnected') =>
              (wsState = "CONNECTING" /\ wsState' = "OPEN")
        /\ ShowsConnected => wsState = "OPEN"
        /\ ShowsConnected' => wsState' = "OPEN"
        /\ (~NewSession /\ wsState' # wsState) => <<wsState, wsState'>> \in Lifecycle
        /\ NewSession => (wsState' = "CONNECTING" /\ ~ShowsConnected')
      ]_vars

\* connected, one frame handled, then the transport dropped
C18_Witness ==
    /\ mounted
    /\ wsState = "CLOSED"
    /\ ~isConnected
    /\ Len(history) = 1

\* C19: handling a message never changes isConnected, whatever the frame
\* (transaction, error, unknown type, not JSON) and whether or not the cue
\* could be played.
C19_HandlerKeepsIndicator ==
    [][ Handled => isConnected' = isConnected ]_vars

\* frames that threw and an alert whose cue was rejected: still connected
C19_Witness ==
    /\ isConnected
    /\ mounted
    /\ cueOutcome = "rejected"
    /\ uncaught >= 1

----------------------------------------------------------------------------
(* The notification cue.                                                   *)

\* C20: play() is called exactly once for each handled transaction frame
\* whose is_alert is true, and not at all for any other frame.
C20_CuePerAlert ==
    [][ Handled => cues' = cues + (IF IsAlerted(Frame) THEN 1 ELSE 0) ]_vars

\* alerts between transactions without the flag: one cue per alert
C20_Witness ==
    /\ cues = 2
    /\ Len(AlertHistory) = 2
    /\ stats.total = 4
    /\ \E i \in 1..Len(history) : IsTransaction(history[i]) /\ history[i].is_alert = "false"

----------------------------------------------------------------------------
\* C21: a rejected cue is swallowed: an alerted transaction leaves the
\* windows, the counters, the indicator, the socket and the count of uncaught
\* exceptions exactly as the frame alone determines, whether play() resolved
\* or rejected, and the socket stays open for the next frame.
C21_CueFailureSwallowed ==
    [][ (Handled /\ IsAlerted(Frame)) =>
          /\ cueOutcome' \in {"played", "rejected"}
          /\ transactions' = SubSeq(<<Frame>> \o transactions, 1,
                                    Min(Len(transactions) + 1, TxCap))
          /\ alerts' = SubSeq(<<Frame>> \o alerts, 1, Min(Len(alerts) + 1, AlertCap))
          /\ stats'.total = stats.total + 1
          /\ stats'.alerts = stats.alerts + 1
          /\ isConnected' = isConnected
          /\ wsState' = "OPEN"
          /\ uncaught' = uncaught
          /\ ~dialog'
      ]_vars

\* a cue was rejected for the newest of several alerts, the monitor still
\* shows Connected and took every frame
C21_Witness ==
    /\ cueOutcome = "rejected"
    /\ ShowsConnected
    /\ wsState = "OPEN"
    /\ uncaught = 0
    /\ stats.alerts >= 2
    /\ stats.total = Len(history)
    /\ Len(alerts) = stats.alerts

\* C22: a monitor session started after an earlier one begins with the four
\* counters at zero and both windows empty.
C22_NewSessionStartsEmpty ==
    [][ NewSession =>
          /\ stats' = [total |-> 0, alerts |-> 0, truePositives |-> 0,
                       falsePositives |-> 0]
          /\ transactions' = <<>>
          /\ alerts' = <<>>
      ]_vars

\* a closed session that counted frames and filled both windows, from which
\* the dashboard can show the monitor again
C22_Witness ==
    /\ ~mounted
    /\ stats.total >= 2
    /\ stats.truePositives >= 1
    /\ transactions # <<>>
    /\ alerts # <<>>
    /\ ENABLED Mount

\* C23: a transaction frame whose is_alert is false adds one to total and
\* enters the transaction window; the other counters, the alert feed and the
\* cue count stay, whatever its fraud_actual.
C23_NonAlertOnlyCounts ==
    [][ (Handled /\ IsTransaction(Frame) /\ Frame.is_alert = "false") =>
          /\ stats' = [stats EXCEPT !.total = stats.total + 1]
          /\ transactions' = SubSeq(<<Frame>> \o transactions, 1,
                                    Min(Len(transactions) + 1, TxCap))
          /\ alerts' = alerts
          /\ cues' = cues
          /\ UNCHANGED <<isConnected, wsState, notices, dialog, uncaught>>
      ]_vars

\* only unflagged transactions were seen, a fraud and a legitimate one among
\* them
C23_Witness ==
    /\ stats.total >= 2
    /\ stats.alerts = 0
    /\ stats.truePositives = 0
    /\ stats.falsePositives = 0
    /\ alerts = <<>>
    /\ \E i \in 1..Len(history) :
          /\ IsTransaction(history[i])
          /\ history[i].is_alert = "false"
          /\ history[i].fraud_actual = "1"
    /\ \E i \in 1..Len(history) :
          /\ IsTransaction(history[i])
          /\ history[i].is_alert = "false"
          /\ history[i].fraud_actual = "0"

\* C25: when the transport drops while the monitor shows Connected, the
\* indicator goes to Disconnected and the windows, the counters, the cue
\* count and the received frames keep their values.
C25_DropOnlyFlipsIndicator ==
    [][ (ShowsConnected /\ wsState = "OPEN" /\ wsState' = "CLOSED" /\ mounted') =>
          /\ ~ShowsConnected'
          /\ UNCHANGED <<transactions, alerts, stats, cues, history>>
      ]_vars

\* the monitor shows Disconnected with both windows full
C25_Witness ==
    /\ mounted
    /\ wsState = "CLOSED"
    /\ ~isConnected
    /\ Len(transactions) = TxCap
    /\ Len(alerts) = AlertCap
    /\ stats.total > TxCap

----------------------------------------------------------------------------
(* The monitor with React's update queue made explicit.  A setter called   *)
(* with an updater function only queues it; the next render runs the queued *)
(* updaters in order, each on the result of the one before, and shows the   *)
(* result.  The handler of a frame runs to completion before anything else, *)
(* and further frames can be handled before that render.                    *)

\* frames whose updaters are queued
PendingFrames == Cardinality({i \in 1..Len(queue) : queue[i].setter = "transactions"})

\* the updaters a transaction frame queues, in the order of the calls
Updaters(data) ==
    <<[setter |-> "transactions", data |-> data], [setter |-> "stats", data |-> data]>>
    \o (IF Truthy(data.is_alert) THEN <<[setter |-> "alerts", data |-> data]>>
        ELSE <<>>)

\* the setters are given values computed from the state the effect's closure
\* captured at mount
ApplyUpdate_FromClosure(u, st) ==
    IF u.setter = "transactions"
    THEN [st EXCEPT !.transactions = PushTransaction(u.data, <<>>)]
    ELSE IF u.setter = "stats"
    THEN [st EXCEPT !.stats = RecordStats(u.data, InitialStats)]
    ELSE [st EXCEPT !.alerts = PushAlert(u.data, <<>>)]

\* one queued updater run on the state st
ApplyUpdate(u, st) ==
    IF u.setter = "transactions"
    THEN [st EXCEPT !.transactions = PushTransaction(u.data, @)]
    ELSE IF u.setter = "stats"
    THEN [st EXCEPT !.stats = RecordStats(u.data, @)]
    ELSE [st EXCEPT !.alerts = PushAlert(u.data, @)]

RECURSIVE ApplyUpdates(_, _)
\* the queued updaters q run in order on st
ApplyUpdates(q, st) ==
    IF q = <<>> THEN st
    ELSE ApplyUpdates(Tail(q), ApplyUpdate(Head(q), st))

\* the body of if (data.type === 'transaction'), its setters queueing
QueueAccept(data) ==
    /\ queue' = queue \o Updaters(data)
    /\ IF Truthy(data.is_alert)
       THEN /\ cues' = cues + 1
            /\ cueOutcome' \in {"played", "rejected"}
       ELSE /\ cueOutcome' = "none"
            /\ UNCHANGED cues
    /\ UNCHANGED <<transactions, alerts, stats, notices, dialog, uncaught>>

\* ws.onmessage, for the frame raw, its setters queueing
QueueMessage(raw) ==
    IF ParseThrows(raw) \/ TypeThrows(raw) THEN Throw /\ UNCHANGED queue
    ELSE IF raw.type = "error" THEN SurfaceError(raw) /\ UNCHANGED queue
    ELSE IF raw.type = "transaction" THEN QueueAccept(raw)
    ELSE Ignore /\ UNCHANGED queue

\* the transport delivers the next frame; the render of the frames before
\* may not have happened yet
BatchOnMessage ==
    /\ ~dialog
    /\ wsState = "OPEN"
    /\ Len(history) < MaxFrames
    /\ PendingFrames < MaxPending
    /\ LET raw == NextFrame(feed, Len(history))
       IN  /\ QueueMessage(raw)
           /\ history' = Append(history, raw)
    /\ UNCHANGED <<isConnected, wsState, mounted, discarded, feed>>
    /\ UNCHANGED <<oldWs, loginVars, chatVars, caseVars>>

\* every setter call renders at once: one updater per render
Render_PerSetter ==
    /\ ~dialog
    /\ queue # <<>>
    /\ LET st == ApplyUpdate(Head(queue), [transactions |-> transactions,
                                           alerts |-> alerts, stats |-> stats])
       IN  /\ transactions' = st.transactions
           /\ alerts' = st.alerts
           /\ stats' = st.stats
    /\ queue' = Tail(queue)
    /\ UNCHANGED <<isConnected, wsState, mounted, cues, cueOutcome, notices, dialog,
                   uncaught, discarded, feed, history>>
    /\ UNCHANGED <<oldWs, loginVars, chatVars, caseVars>>

\* React renders: all queued updaters run, the component shows the result
Render ==
    /\ ~dialog
    /\ queue # <<>>
    /\ LET st == ApplyUpdates(queue, [transactions |-> transactions,
                                      alerts |-> alerts, stats |-> stats])
       IN  /\ transactions' = st.transactions
           /\ alerts' = st.alerts
           /\ stats' = st.stats
    /\ queue' = <<>>
    /\ UNCHANGED <<isConnected, wsState, mounted, cues, cueOutcome, notices, dialog,
                   uncaught, discarded, feed, history>>
    /\ UNCHANGED <<oldWs, loginVars, chatVars, caseVars>>

BatchNext == OnOpen \/ BatchOnMessage \/ Render \/ Dismiss

SpecBatch == Init /\ [][BatchNext]_vars

\* what the monitor shows once the first k received frames are rendered
ShowsFirst(k) ==
    LET seen == SubSeq(history, 1, k)
        txs == SelectSeq(seen, IsTransaction)
        als == SelectSeq(seen, IsAlerted)
    IN  /\ transactions = Reverse(LastN(txs, TxCap))
        /\ alerts = Reverse(LastN(als, AlertCap))
        /\ stats.total = Len(txs)
        /\ stats.alerts = Len(als)

\* C24: what a render shows is consistent: the transaction window holds
\* min(total, 50) entries and the alert feed min(alerts, 20); windows and
\* counters reflect the same received frames, never a frame in one and not in
\* another; and once the queue is empty every received frame is reflected, so
\* frames handled between two renders lose no update.
C24_SnapshotsConsistent ==
    /\ Len(transactions) = Min(stats.total, TxCap)
    /\ Len(alerts) = Min(stats.alerts, AlertCap)
    /\ \E k \in 0..Len(history) :
          /\ ShowsFirst(k)
          /\ queue = <<>> => k = Len(history)

\* two frames, an alert among them, were handled after the last render, with
\* the transaction window already full
C24_Witness ==
    /\ PendingFrames = 2
    /\ Len(queue) >= 5
    /\ Len(transactions) = TxCap
    /\ stats.total + 2 <= Len(history)
    /\ stats.alerts >= 1

----------------------------------------------------------------------------
(* The effect run twice for one instance: React runs the cleanup and then   *)
(* the effect again (development double invocation, fast refresh).  The     *)
(* component state is kept; the first socket is closed and a second one is  *)
(* created, and the handlers of both call the same setters.                 *)

\* return () => ws.close(), then the effect body again
Rerun ==
    /\ ~dialog
    /\ mounted
    /\ oldWs = "NONE"
    /\ oldWs' = CloseSocket(wsState)
    /\ wsState' = "CONNECTING"
    /\ UNCHANGED <<transactions, alerts, isConnected, stats, mounted, cues, cueOutcome,
                   notices, dialog, uncaught, discarded, feed, history>>
    /\ UNCHANGED <<queue, loginVars, chatVars, caseVars>>

\* the close event of the first socket: its onclose is still
\* () => setIsConnected(false)
OldOnClose ==
    /\ ~dialog
    /\ oldWs = "CLOSING"
    /\ oldWs' = "CLOSED"
    /\ isConnected' = IF mounted THEN FALSE ELSE isConnected
    /\ UNCHANGED <<transactions, alerts, stats, wsState, mounted, cues, cueOutcome,
                   notices, dialog, uncaught, discarded, feed, history>>
    /\ UNCHANGED <<queue, loginVars, chatVars, caseVars>>

\* a frame reaches the first socket after its close(): no message event
OldDiscard ==
    /\ ~dialog
    /\ oldWs = "CLOSING"
    /\ discarded < MaxDiscarded
    /\ Len(history) + discarded < MaxFrames
    /\ discarded' = discarded + 1
    /\ UNCHANGED <<transactions, alerts, isConnected, stats, wsState, mounted, cues,
                   cueOutcome, notices, dialog, uncaught, feed, history>>
    /\ UNCHANGED offMonitor

RerunNext ==
    OnOpen \/ OnMessage \/ Dismiss \/ OnClose \/ Rerun \/ OldOnClose \/ OldDiscard

SpecRerun == Init /\ [][RerunNext]_vars

\* C26: after the effect ran again for the same instance, the close event of
\* the first socket never leaves the indicator at Disconnected while the
\* second socket is open, and a frame that reaches the first socket after
\* its cleanup changes no window and no counter.
C26_OldSocketIsInert ==
    [][ /\ (oldWs' # "NONE" /\ wsState' = "OPEN") => ShowsConnected'
        /\ (oldWs # "NONE" /\ discarded' # discarded) =>
              UNCHANGED <<transactions, alerts, stats>>
      ]_vars

----------------------------------------------------------------------------
(* The login form (Login.tsx lines 5-44 and its inputs and button).        *)

\* no monitor exists while another page is shown
MonitorAbsent ==
    /\ transactions = <<>>
    /\ alerts = <<>>
    /\ isConnected = FALSE
    /\ stats = InitialStats
    /\ wsState = "CLOSED"
    /\ mounted = FALSE
    /\ cues = 0
    /\ cueOutcome = "none"
    /\ notices = <<>>
    /\ dialog = FALSE
    /\ uncaught = 0
    /\ discarded = 0
    /\ feed = [cycle |-> <<UnknownKind, UnknownKind>>, redeliver |-> FALSE]
    /\ history = <<>>
    /\ queue = <<>>
    /\ oldWs = "NONE"

\* what the operator can type into a field
FieldValues == {"", "a"}

\* how a login request can end
Outcomes == {"ok", "refused_detail", "refused", "network", "parse"}

\* response.ok: localStorage.setItem('token', ...), setItem('user', ...)
Stored == [token |-> "token", user |-> "user"]

LoginPageInit == MonitorAbsent /\ LoginInit /\ ChatInit /\ CasesInit

\* the form is on screen until router.push('/') has replaced the page
FormShown == route = "/login"

\* onChange={(e) => setEmail(e.target.value)}
SetEmail ==
    /\ FormShown
    /\ \E v \in FieldValues : v # email /\ email' = v
    /\ UNCHANGED <<password, isLoading, error, inFlight, attempts, localStorage,
                   route, lastOutcome>>
    /\ UNCHANGED <<monitorVars, chatVars, caseVars>>

\* onChange={(e) => setPassword(e.target.value)}
SetPassword ==
    /\ FormShown
    /\ \E v \in FieldValues : v # password /\ password' = v
    /\ UNCHANGED <<email, isLoading, error, inFlight, attempts, localStorage,
                   route, lastOutcome>>
    /\ UNCHANGED <<monitorVars, chatVars, caseVars>>

\* handleSubmit up to its await fetch(...)
BeginSubmit ==
    /\ attempts < MaxAttempts
    /\ isLoading' = TRUE
    /\ error' = ""
    /\ attempts' = attempts + 1
    /\ inFlight' = inFlight \cup {attempts + 1}
    /\ UNCHANGED <<email, password, localStorage, route, lastOutcome>>
    /\ UNCHANGED <<monitorVars, chatVars, caseVars>>

\* the button: onClick={handleSubmit}, disabled={isLoading || !email || !password}
ClickSubmit ==
    /\ FormShown
    /\ ~(isLoading \/ email = "" \/ password = "")
    /\ BeginSubmit

\* handleKeyPress: if (e.key === 'Enter' && email && password) handleSubmit()
PressEnter ==
    /\ FormShown
    /\ email # "" /\ password # ""
    /\ BeginSubmit

\* the message handleSubmit sets for an outcome other than ok
ErrorFor(outcome) ==
    IF outcome = "refused_detail" THEN "detail"
    ELSE IF outcome = "refused" THEN "Invalid credentials"
    ELSE "Connection error. Please try again."

\* the token is stored before response.ok is looked at
Complete_StoresAlways(a, outcome) ==
    /\ a \in inFlight
    /\ inFlight' = inFlight \ {a}
    /\ lastOutcome' = outcome
    /\ localStorage' = IF outcome \in {"ok", "refused", "refused_detail"}
                       THEN Stored ELSE localStorage
    /\ route' = IF outcome = "ok" THEN "/" ELSE route
    /\ IF FormShown
       THEN /\ error' = IF outcome = "ok" THEN error ELSE ErrorFor(outcome)
            /\ isLoading' = FALSE
       ELSE UNCHANGED <<error, isLoading>>
    /\ UNCHANGED <<email, password, attempts>>
    /\ UNCHANGED <<monitorVars, chatVars, caseVars>>

\* handleSubmit from the await on, for the attempt a: the fetch rejects
\* ("network"), response.json() throws ("parse"), or a response is read; the
\* setters do nothing once the form is gone
Complete(a, outcome) ==
    /\ a \in inFlight
    /\ inFlight' = inFlight \ {a}
    /\ lastOutcome' = outcome
    /\ localStorage' = IF outcome = "ok" THEN Stored ELSE localStorage
    /\ route' = IF outcome = "ok" THEN "/" ELSE route
    /\ IF FormShown
       THEN /\ error' = IF outcome = "ok" THEN error ELSE ErrorFor(outcome)
            /\ isLoading' = FALSE
       ELSE UNCHANGED <<error, isLoading>>
    /\ UNCHANGED <<email, password, attempts>>
    /\ UNCHANGED <<monitorVars, chatVars, caseVars>>

\* some attempt under way ends
LoginResponse == \E a \in 1..MaxAttempts : \E outcome \in Outcomes : Complete(a, outcome)

LoginNext == SetEmail \/ SetPassword \/ ClickSubmit \/ PressEnter \/ LoginResponse

SpecLogin == LoginPageInit /\ [][LoginNext]_vars

\* C27: at most one login request is in flight: while isLoading is true
\* neither the button nor Enter starts another handleSubmit.
C27_OneLoginInFlight ==
    [][ /\ Cardinality(inFlight') <= 1
        /\ isLoading => attempts' = attempts
      ]_vars

\* an attempt ends on this step
Completed == Cardinality(inFlight') < Cardinality(inFlight)

\* C28: token and user are stored and the browser goes to '/' only when an
\* attempt ends with response.ok, and then both happen; an attempt that ends
\* otherwise leaves localStorage and the route alone and, on the form, sets an
\* error message; and when an attempt has ended the form's isLoading is false.
C28_LoginOutcome ==
    [][ /\ (localStorage' # localStorage \/ route' # route) =>
              (Completed /\ lastOutcome' = "ok")
        /\ (Completed /\ lastOutcome' = "ok") =>
              (localStorage' = Stored /\ route' = "/")
        /\ (Completed /\ lastOutcome' # "ok") =>
              /\ localStorage' = localStorage
              /\ route' = route
              /\ FormShown => error' # ""
        /\ (Completed /\ FormShown) => ~isLoading'
      ]_vars

\* a refused attempt left its message and nothing stored, and a later attempt
\* is under way
C28_Witness ==
    /\ attempts = 2
    /\ inFlight = {2}
    /\ lastOutcome = "refused"
    /\ localStorage.token = "none"
    /\ route = "/login"
    /\ isLoading
    /\ error = ""

----------------------------------------------------------------------------
(* The Copilot chat (Copilot.tsx lines 85-110 and its input box).          *)

\* what the operator can have in the input box
InputValues == {"", " ", "q"}

\* String.prototype.trim
Trim(v) == IF v = " " THEN "" ELSE v

\* the user messages so far
Asked == Cardinality({i \in 1..Len(messages) : messages[i].role = "user"})

ChatPageInit == MonitorAbsent /\ LoginInit /\ ChatInit /\ CasesInit

\* onChange={(e) => setInput(e.target.value)}
SetInput ==
    /\ \E v \in InputValues : v # input /\ input' = v
    /\ UNCHANGED <<messages, isTyping, pending>>
    /\ UNCHANGED <<monitorVars, loginVars, caseVars>>

\* handleSend up to await processQuery(...), from the button or Enter
HandleSend ==
    /\ Trim(input) # ""
    /\ Asked < MaxQueries
    /\ messages' = Append(messages, [role |-> "user", query |-> Asked + 1])
    /\ input' = ""
    /\ isTyping' = TRUE
    /\ pending' = pending \cup {Asked + 1}
    /\ UNCHANGED <<monitorVars, loginVars, caseVars>>

\* handleSend after the await, for the query q: processQuery has returned
\* the backend's answer or its offline fallback
Reply(q) ==
    /\ q \in pending
    /\ pending' = pending \ {q}
    /\ isTyping' = FALSE
    /\ messages' = Append(messages, [role |-> "ai", query |-> q])
    /\ UNCHANGED input
    /\ UNCHANGED <<monitorVars, loginVars, caseVars>>

\* processQuery returns for some query under way, in any order
ChatReply == \E q \in 1..MaxQueries : Reply(q)

ChatNext == SetInput \/ HandleSend \/ ChatReply

SpecChat == ChatPageInit /\ [][ChatNext]_vars

\* the queries the replies in the list answer, in list order
Answered ==
    LET IsReply(m) == m.role = "ai" /\ m.query > 0
    IN  SelectSeq(messages, IsReply)

\* C29: the replies stand in the message list in the order of the queries
\* they answer, and the typing indicator is on exactly while some query has
\* no reply yet.
C29_RepliesInOrder ==
    /\ \A i, j \in 1..Len(Answered) : i < j => Answered[i].query < Answered[j].query
    /\ isTyping <=> pending # {}

----------------------------------------------------------------------------
(* The Investigation Workbench (Copilot.tsx lines 257-322 and the action   *)
(* buttons of a case, lines 600-640).  A request is sent, handled by the   *)
(* server, and its answer received, as three steps; a request can also be  *)
(* lost, before or after the server handled it.                            *)

Closed == {"confirmed_fraud", "false_positive"}

\* the function f without the key k
Without(f, k) == [c \in DOMAIN f \ {k} |-> f[c]]

\* the buttons that call updateStatus(id, to)
OffersUpdate(id, to) ==
    /\ ~loading
    /\ id \in DOMAIN cases
    /\ \/ to = "investigating" /\ cases[id] = "open"
       \/ to \in Closed /\ cases[id] \in {"investigating", "open"}

\* the button that calls deleteCase(id)
OffersDelete(id) ==
    /\ ~loading
    /\ id \in DOMAIN cases
    /\ cases[id] \in Closed

WorkbenchInit == MonitorAbsent /\ LoginInit /\ ChatInit /\ CasesInit

\* requests are sent while fewer than MaxRequests are under way
CanSend == Cardinality(caseRequests) < MaxRequests

\* updateStatus up to its await fetch(...): the analyst enters a note
ClickUpdate(id, to) ==
    /\ OffersUpdate(id, to)
    /\ CanSend
    /\ caseRequests' = caseRequests \cup
          {[kind |-> "update", id |-> id, to |-> to, phase |-> "sent",
            ok |-> TRUE, snapshot |-> NoCases]}
    /\ UNCHANGED <<cases, loading, serverCases>>
    /\ UNCHANGED <<monitorVars, loginVars, chatVars>>

\* the case leaves the list as soon as the analyst confirms
ClickDelete_Optimistic(id) ==
    /\ OffersDelete(id)
    /\ CanSend
    /\ cases' = Without(cases, id)
    /\ caseRequests' = caseRequests \cup
          {[kind |-> "delete", id |-> id, to |-> "none", phase |-> "sent",
            ok |-> TRUE, snapshot |-> cases]}
    /\ UNCHANGED <<loading, serverCases>>
    /\ UNCHANGED <<monitorVars, loginVars, chatVars>>

\* deleteCase up to its await fetch(...): the analyst confirms; the handler
\* holds the cases of the render it was created in
ClickDelete(id) ==
    /\ OffersDelete(id)
    /\ CanSend
    /\ caseRequests' = caseRequests \cup
          {[kind |-> "delete", id |-> id, to |-> "none", phase |-> "sent",
            ok |-> TRUE, snapshot |-> cases]}
    /\ UNCHANGED <<cases, loading, serverCases>>
    /\ UNCHANGED <<monitorVars, loginVars, chatVars>>

\* the server handles the request r: it applies an update or a delete of a
\* case it holds and answers ok, or refuses; GET /cases answers with its cases
ServerHandle(r) ==
    /\ r \in caseRequests
    /\ r.phase = "sent"
    /\ \E ok \in BOOLEAN :
          /\ r.kind = "fetch" => ok
          /\ (r.kind # "fetch" /\ r.id \notin DOMAIN serverCases) => ~ok
          /\ serverCases' =
                IF r.kind = "update" /\ ok THEN [serverCases EXCEPT ![r.id] = r.to]
                ELSE IF r.kind = "delete" /\ ok THEN Without(serverCases, r.id)
                ELSE serverCases
          /\ caseRequests' = (caseRequests \ {r}) \cup
                {[r EXCEPT !.phase = "answered", !.ok = ok,
                           !.snapshot = IF r.kind = "fetch" THEN serverCases
                                        ELSE r.snapshot]}
    /\ UNCHANGED <<cases, loading>>
    /\ UNCHANGED <<monitorVars, loginVars, chatVars>>

\* the handler resumes with the answer to r: fetchCases sets the cases,
\* updateStatus refreshes after ok, deleteCase removes the case after ok
Receive(r) ==
    /\ r \in caseRequests
    /\ r.phase = "answered"
    /\ cases' = IF r.kind = "fetch" THEN r.snapshot
                ELSE IF r.kind = "delete" /\ r.ok THEN Without(r.snapshot, r.id)
                ELSE cases
    /\ loading' = IF r.kind = "fetch" THEN FALSE ELSE loading
    /\ caseRequests' = IF r.kind = "update" /\ r.ok
                       THEN (caseRequests \ {r}) \cup {FetchRequest}
                       ELSE caseRequests \ {r}
    /\ UNCHANGED serverCases
    /\ UNCHANGED <<monitorVars, loginVars, chatVars>>

\* the fetch of r rejects: the catch branch changes no state
Fail(r) ==
    /\ r \in caseRequests
    /\ caseRequests' = caseRequests \ {r}
    /\ UNCHANGED <<cases, loading, serverCases>>
    /\ UNCHANGED <<monitorVars, loginVars, chatVars>>

Update == \E id \in CaseIds : \E to \in Statuses : ClickUpdate(id, to)

Delete == \E id \in CaseIds : ClickDelete(id)

Handle == \E r \in caseRequests : ServerHandle(r)

Answer == \E r \in caseRequests : Receive(r)

Lose == \E r \in caseRequests : Fail(r)

WorkbenchNext == Update \/ Delete \/ Handle \/ Answer \/ Lose

SpecWorkbench == WorkbenchInit /\ [][WorkbenchNext]_vars

\* the status changes the claim allows
AllowedChanges ==
    {<<"open", "investigating">>,
     <<"open", "confirmed_fraud">>, <<"open", "false_positive">>,
     <<"investigating", "confirmed_fraud">>, <<"investigating", "false_positive">>}

\* the requests sent on this step
Sent == {r \in caseRequests' \ caseRequests : r.phase = "sent"}

====
